---- MODULE Spec2Model ----
(***************************************************************************)
(* A model of src/app.py, the Flask application boilerplate: secret-key    *)
(* provisioning, the before/after request hooks, the routes and the        *)
(* catch-all error handler, driven by the request cycle of the framework   *)
(* (match the URL, run the before_request functions in registration order, *)
(* dispatch to the view, hand an exception to the error handler, run the   *)
(* after_request functions in REVERSE registration order, save the         *)
(* session).  Sessions are the framework's signed client-side cookies.     *)
(***************************************************************************)
EXTENDS Integers, Sequences, FiniteSets, TLC

\* ------------------------------------------------------------------ bounds
\* Number of characters of the key alphabet that the model samples from
\* (string.punctuation + string.ascii_letters + string.digits has 94).
AlphabetSize == 2
\* Requests sent over the whole run.
MaxRequests == 2
\* Restarts of the process over the whole run.
MaxRestarts == 1

\* ------------------------------------------------------- program constants
KEY_LENGTH == 64

\* Python's None, and the value a missing dictionary key reads as.
NONE == "<None>"

Clients == {"c1", "c2"}
\* Requests being handled at the same time (threads of the hosting server).
Workers == {1, 2}
\* The requests of the model, as method and path segments: GET of /, of the
\* two API routes, of a static file that exists and of one that does not, of
\* a path no rule matches, and a POST to a route that takes GET only.
Requests ==
  { <<"GET", <<>> >>,
    <<"GET", <<"api", "return_json_response">> >>,
    <<"GET", <<"api", "return_error_response">> >>,
    <<"GET", <<"static", "style.css">> >>,
    <<"GET", <<"static", "missing.css">> >>,
    <<"GET", <<"nowhere">> >>,
    <<"POST", <<"api", "return_json_response">> >> }
\* The files under the application's static folder.
StaticFiles == { <<"style.css">> }

VARIABLES
  secretFile,            \* the file <root_path>/secret_key
  SECRET_KEY,            \* app.config['SECRET_KEY']
  IGNORE_SESSION_CHECK,  \* app.config['IGNORE_SESSION_CHECK']
  cookies,               \* each client's cookie jar: a set of at most one session cookie
  req,                   \* each worker's request context
  accessLog,             \* logs/access.log (INFO and above): the records written for each worker's request
  errorLog,              \* logs/error.log (ERROR and above): the records written for each worker's request
  visited,               \* history: the client received a response to GET / in its current session
  failed,                \* history: the process has answered a request with 401 or 500
  nreq,                  \* requests sent so far
  nrestart               \* restarts so far

vars == <<secretFile, SECRET_KEY, IGNORE_SESSION_CHECK, cookies, req,
          accessLog, errorLog, visited, failed, nreq, nrestart>>

\* ------------------------------------------------------------ text helpers
Digit == <<"0", "1", "2", "3", "4", "5", "6", "7", "8", "9">>

\* str.format of an integer.
RECURSIVE Str(_)
Str(n) == IF n < 10 THEN Digit[n + 1] ELSE Str(n \div 10) \o Digit[(n % 10) + 1]

\* sep.join(parts)
RECURSIVE Join(_, _)
Join(parts, sep) ==
  IF parts = <<>> THEN ""
  ELSE IF Len(parts) = 1 THEN parts[1]
  ELSE parts[1] \o sep \o Join(Tail(parts), sep)

\* request.path of a path given by its segments.
PathText(p) == "/" \o Join(p, "/")

\* text.split('\n') of a text given as its pieces, "\n" being a piece of its own.
RECURSIVE SplitLines(_, _, _)
SplitLines(text, cur, acc) ==
  IF text = <<>> THEN Append(acc, cur)
  ELSE IF Head(text) = "\n" THEN SplitLines(Tail(text), "", Append(acc, cur))
  ELSE SplitLines(Tail(text), cur \o Head(text), acc)

split(text) == SplitLines(text, "", <<>>)

RECURSIVE Reverse(_)
Reverse(s) == IF s = <<>> THEN <<>> ELSE Append(Reverse(Tail(s)), Head(s))

\* Python truthiness of a session value.
Truthy(v) == v \notin {NONE, ""}


\* ------------------------------------------------------ secret provisioning
\* Some characters of string.punctuation + string.ascii_letters +
\* string.digits; the model draws from the first AlphabetSize of them.
Characters == <<"a", "B", "3", "#", "z", "%">>
Alphabet == {Characters[i] : i \in 1..AlphabetSize}

\* ''.join of n characters c.
RECURSIVE Repeat(_, _)
Repeat(c, n) == IF n = 0 THEN "" ELSE c \o Repeat(c, n - 1)

\* The outcomes of ''.join([random.choice(alphabet) for i in range(64)])
\* the model samples: for each character of the alphabet the key of 64
\* characters that are all that one.
RandomKeys == [c \in Alphabet |-> Repeat(c, KEY_LENGTH)]

RandomKey(c) == RandomKeys[c]

NoFile == [exists |-> FALSE, content |-> ""]

\* get_secret_key without the write to the file.
get_secret_key_unsaved(file, c) ==
  IF file.exists
  THEN [key |-> file.content, file |-> file]
  ELSE [key |-> RandomKey(c), file |-> file]

\* get_secret_key: the key, and the file as the call leaves it.  c is the
\* draw of the random generator, used only when the file cannot be read.
get_secret_key(file, c) ==
  IF file.exists
  THEN [key |-> file.content, file |-> file]
  ELSE LET k == RandomKey(c)
       IN  [key |-> k, file |-> [exists |-> TRUE, content |-> k]]

\* ------------------------------------------------------------- sessions
EmptySession == [k \in {} |-> NONE]

\* session.get(k)
session_get(s, k) == IF k \in DOMAIN s THEN s[k] ELSE NONE

\* session[k] = v
session_set(s, k, v) == [x \in (DOMAIN s) \cup {k} |-> IF x = k THEN v ELSE s[x]]

\* The session cookie: the session's content signed with the secret key.
sign(key, data) == [key |-> key, data |-> data]

\* The session a request opens: the content of its cookie if the signature
\* verifies under the current secret key, an empty session otherwise.
open_session(key, jar) ==
  IF jar = {} THEN EmptySession
  ELSE LET c == CHOOSE x \in jar : TRUE
       IN  IF c.key = key THEN c.data ELSE EmptySession

\* The cookie jar after the response: the framework deletes the cookie of a
\* session that was emptied, sets it when the session was modified, and
\* sends no Set-Cookie header otherwise.
save_session(jar, key, session, modified) ==
  IF DOMAIN session = {}
  THEN IF modified THEN {} ELSE jar
  ELSE IF modified THEN {sign(key, session)} ELSE jar

\* ------------------------------------------------------------- responses
NoRes == [status |-> 0, body |-> NONE, headers |-> {}]

make_response(body, status) == [status |-> status, body |-> body, headers |-> {}]

\* jsonify of an object given as its key/value pairs.
RECURSIVE JsonMembers(_)
JsonMembers(pairs) ==
  IF pairs = <<>> THEN ""
  ELSE "\"" \o pairs[1][1] \o "\": \"" \o pairs[1][2] \o "\""
       \o (IF Len(pairs) > 1 THEN ", " ELSE "") \o JsonMembers(Tail(pairs))

jsonify(pairs) == make_response("{" \o JsonMembers(pairs) \o "}", 200)

\* What a function of the application hands back to the framework: a
\* return value (NoRes for None), an exception raised (NONE for none), the
\* session as the function leaves it, and the log records it wrote (trace is
\* history: the functions the framework has called for the request).
Result(r) ==
  [rv |-> NoRes, exc |-> NONE, session |-> r.session, modified |-> r.modified,
   log |-> <<>>, trace |-> <<>>]

Info(msg) == [level |-> "INFO", message |-> msg]
Error(msg) == [level |-> "ERROR", message |-> msg]

\* --------------------------------------------------------- configuration
\* skip_session_check that returns the function without registering it.
skip_session_check_unregistered(config, func) == config

\* skip_session_check(func): the exemption list after the registration.
skip_session_check(config, func) == Append(config, func)

\* app.config['IGNORE_SESSION_CHECK'] once the module is imported: ['static']
\* and then the functions decorated with skip_session_check (index).
ImportedIgnoreList == skip_session_check(<<"static">>, "index")

Elements(seq) == {seq[i] : i \in DOMAIN seq}

\* The routing table: the framework's static rule, then the app.route rules.
url_map ==
  << [rule |-> <<"static", "<path:filename>">>, endpoint |-> "static", methods |-> {"GET"}],
     [rule |-> <<"api", "return_json_response">>, endpoint |-> "return_json_response", methods |-> {"GET"}],
     [rule |-> <<"api", "return_error_response">>, endpoint |-> "return_error_response", methods |-> {"GET"}],
     [rule |-> <<>>, endpoint |-> "index", methods |-> {"GET"}] >>

RuleMatches(rule, path) ==
  IF rule # <<>> /\ rule[Len(rule)] = "<path:filename>"
  THEN /\ Len(path) >= Len(rule)
       /\ \A i \in 1..(Len(rule) - 1) : path[i] = rule[i]
  ELSE path = rule

\* The endpoint of a request, or the routing exception kept for dispatch.
match_request(path, method) ==
  LET hit == {i \in DOMAIN url_map : RuleMatches(url_map[i].rule, path)}
      ok  == {i \in hit : method \in url_map[i].methods}
  IN  IF hit = {} THEN [endpoint |-> NONE, routing_exception |-> "NotFound"]
      ELSE IF ok = {} THEN [endpoint |-> NONE, routing_exception |-> "MethodNotAllowed"]
      ELSE [endpoint |-> url_map[CHOOSE i \in ok : TRUE].endpoint, routing_exception |-> NONE]

\* request.access_route of each client: c1 connects directly, c2 through a
\* reverse proxy that appends its own hop to X-Forwarded-For.
AccessRoute(c) ==
  IF c = "c1" THEN <<"192.0.2.1">> ELSE <<"198.51.100.7", "10.0.0.1">>

remote_addr(r) == r.access_route[Len(r.access_route)]

\* ---------------------------------------------------- before each request
write_access_log(r) ==
  [Result(r) EXCEPT
     !.log = << Info(Join(<<remote_addr(r), r.method, PathText(r.path),
                            "request start">>, "\t")) >>]

\* check_session without its last line: it ends returning None.
check_session_no_401(r, ignore) == Result(r)

\* check_session taking a request without an endpoint for an exempt one.
check_session_none_exempt(r, ignore) ==
  IF r.endpoint = NONE \/ r.endpoint \in Elements(ignore) THEN Result(r)
  ELSE IF Truthy(session_get(r.session, "login_id")) THEN Result(r)
  ELSE [Result(r) EXCEPT !.rv = make_response("login required", 401)]

\* check_session clearing the session when it refuses the request.
check_session_clearing(r, ignore) ==
  IF r.endpoint \in Elements(ignore) THEN Result(r)
  ELSE IF Truthy(session_get(r.session, "login_id")) THEN Result(r)
  ELSE [Result(r) EXCEPT !.rv = make_response("login required", 401),
                         !.session = EmptySession, !.modified = TRUE]

check_session(r, ignore) ==
  IF r.endpoint \in Elements(ignore) THEN Result(r)
  ELSE IF Truthy(session_get(r.session, "login_id")) THEN Result(r)
  ELSE [Result(r) EXCEPT !.rv = make_response("login required", 401)]

\* ----------------------------------------------------- after each request
add_no_cache_header(r, res) == [res |-> res, log |-> <<>>]

static_cache(r, res) ==
  [res |-> IF r.endpoint = "static"
           THEN [res EXCEPT !.headers =
                   {h \in res.headers : h[1] # "Expires"} \cup {<<"Expires", "now + 365 days">>}]
           ELSE res,
   log |-> <<>>]

write_access_result_log(r, res) ==
  [res |-> res,
   log |-> << Info(Join(<<remote_addr(r), r.method, PathText(r.path),
                          "reqeust end", Str(res.status)>>, "\t")) >>]

\* ------------------------------------------------------------------ routes
return_json_response(r) ==
  [Result(r) EXCEPT !.rv = jsonify(<< <<"this is", "sample">> >>)]

\* return_error_response without the status argument of make_response.
return_error_response_200(r) == [Result(r) EXCEPT !.rv = jsonify(<<>>)]

return_error_response(r) ==
  [Result(r) EXCEPT !.rv = [jsonify(<<>>) EXCEPT !.status = 403]]

\* render_template('index.html', name='World'): the page.
render_template_index == make_response("<index.html name=World>", 200)

\* index without the assignment to session['login_id'].
index_no_login(r) == [Result(r) EXCEPT !.rv = render_template_index]

index(r) ==
  [Result(r) EXCEPT !.session = session_set(r.session, "login_id", "something"),
                    !.modified = TRUE,
                    !.rv = render_template_index]

\* The framework's static view: the file, or NotFound raised.
send_static_file(r) ==
  IF Tail(r.path) \in StaticFiles
  THEN [Result(r) EXCEPT !.rv = make_response("<file " \o Join(Tail(r.path), "/") \o ">", 200)]
  ELSE [Result(r) EXCEPT !.exc = "NotFound"]

view_function(r) ==
  CASE r.endpoint = "static" -> send_static_file(r)
    [] r.endpoint = "return_json_response" -> return_json_response(r)
    [] r.endpoint = "return_error_response" -> return_error_response(r)
    [] r.endpoint = "index" -> index(r)

\* ----------------------------------------------------------- error handler
\* traceback.format_exc() while the exception is handled: the header, the
\* frame that raised, the exception line, each ended by a newline.
TracebackLines(exc) ==
  << "Traceback (most recent call last):",
     "  File \"app.py\", in " \o exc,
     "werkzeug.exceptions." \o exc >>

RECURSIVE format_exc_lines(_)
format_exc_lines(lines) ==
  IF lines = <<>> THEN <<>> ELSE <<Head(lines), "\n">> \o format_exc_lines(Tail(lines))

format_exc(exc) == format_exc_lines(TracebackLines(exc))

\* for i, line in enumerate(lines): app.logger.error of the line under the
\* number i + offset (i from 0).
log_lines(lines, offset) ==
  [n \in 1..Len(lines) |-> Error(Str((n - 1) + offset) \o "\t" \o lines[n])]

\* handle_error numbering the lines from 0, as enumerate does.
handle_error_from_0(r, error) ==
  [Result(r) EXCEPT !.log = log_lines(split(format_exc(error)), 0),
                    !.rv = make_response("Internal Server Error", 500)]

handle_error(r, error) ==
  [Result(r) EXCEPT !.log = log_lines(split(format_exc(error)), 1),
                    !.rv = make_response("Internal Server Error", 500)]

\* ------------------------------------------------ the registered functions
\* In registration order.
before_request_funcs == <<"write_access_log", "check_session">>
\* The after_request functions with write_access_result_log defined first.
after_request_funcs_log_first ==
  <<"write_access_result_log", "add_no_cache_header", "static_cache">>

after_request_funcs == <<"add_no_cache_header", "static_cache", "write_access_result_log">>

run_before(name, r, ignore) ==
  CASE name = "write_access_log" -> write_access_log(r)
    [] name = "check_session" -> check_session(r, ignore)

run_after(name, r, res) ==
  CASE name = "add_no_cache_header" -> add_no_cache_header(r, res)
    [] name = "static_cache" -> static_cache(r, res)
    [] name = "write_access_result_log" -> write_access_result_log(r, res)

\* The request after an after_request function: its response, the records
\* it logged after those logged before, its name at the end of the trace.
after_step(acc, out, name) ==
  [res |-> out.res, log |-> acc.log \o out.log, trace |-> Append(acc.trace, name)]

\* process_response: the after_request functions, each fed the response of
\* the one before it, in the order the framework calls them: the reverse of
\* their registration.
RECURSIVE chain_after(_, _, _)
chain_after(names, r, acc) ==
  IF names = <<>> THEN acc
  ELSE chain_after(Tail(names), r,
                   after_step(acc, run_after(Head(names), r, acc.res), Head(names)))

process_response(r) ==
  chain_after(Reverse(after_request_funcs), r,
              [res |-> r.res, log |-> <<>>, trace |-> r.trace])

\* The request seen by the next function: the session as the ones before
\* left it.
With(r, acc) == [r EXCEPT !.session = acc.session, !.modified = acc.modified]

\* The request after a function called for it: what the function returned,
\* the records it logged after those logged before, its name at the end of
\* the trace.
before_step(acc, out, name) ==
  [out EXCEPT !.log = acc.log \o out.log, !.trace = Append(acc.trace, name)]

\* preprocess_request: the before_request functions in registration order;
\* the first return value that is not None ends the chain and is the
\* response.
RECURSIVE chain_before(_, _, _, _)
chain_before(names, r, ignore, acc) ==
  IF names = <<>> \/ acc.rv # NoRes THEN acc
  ELSE chain_before(Tail(names), r, ignore,
                    before_step(acc, run_before(Head(names), With(r, acc), ignore),
                                Head(names)))

Started(r) == [Result(r) EXCEPT !.trace = r.trace]

preprocess_request(r, ignore) ==
  chain_before(before_request_funcs, r, ignore, Started(r))

\* dispatch_request, unless a before_request function answered: the routing
\* exception is raised here, otherwise the view function of the endpoint
\* runs.
dispatch_request(r, acc) ==
  IF acc.rv # NoRes THEN acc
  ELSE IF r.routing_exception # NONE
  THEN [acc EXCEPT !.exc = r.routing_exception]
  ELSE before_step(acc, view_function(With(r, acc)), r.endpoint)

\* handle_user_exception, if an exception was raised: the handler registered
\* for Exception takes every exception, HTTP exceptions included.
handle_user_exception(r, acc) ==
  IF acc.exc = NONE THEN acc
  ELSE [before_step(acc, handle_error(With(r, acc), acc.exc), "handle_error")
          EXCEPT !.exc = acc.exc]

\* full_dispatch_request, up to the response handed to finalize_request.
full_dispatch_request(r, ignore) ==
  handle_user_exception(r, dispatch_request(r, preprocess_request(r, ignore)))

\* --------------------------------------------------------- request context
Idle ==
  [pc |-> "idle", client |-> "", method |-> "", path |-> <<>>,
   access_route |-> <<>>, sent |-> {}, afterIndex |-> FALSE,
   afterFailure |-> FALSE,
   endpoint |-> NONE, routing_exception |-> NONE,
   session |-> EmptySession, modified |-> FALSE,
   res |-> NoRes, exc |-> NONE, trace |-> <<>>]

\* The context the framework pushes for a request: the URL is matched and
\* the session opened from the cookie the client sent.
request_context(c, m, p, jar, key, seen, fail) ==
  LET route == match_request(p, m)
  IN  [Idle EXCEPT !.pc = "full_dispatch_request", !.client = c,
                   !.method = m, !.path = p, !.access_route = AccessRoute(c),
                   !.sent = jar, !.afterIndex = seen, !.afterFailure = fail,
                   !.endpoint = route.endpoint,
                   !.routing_exception = route.routing_exception,
                   !.session = open_session(key, jar)]

\* The records a logger call leaves in each sink: access.log takes INFO and
\* above, error.log ERROR and above.
ToAccessLog(log) == SelectSeq(log, LAMBDA l : l.level \in {"INFO", "ERROR"})
ToErrorLog(log) == SelectSeq(log, LAMBDA l : l.level = "ERROR")

\* The log files are append-only and outlive the requests; the model keeps of
\* each file the records written for the request a worker holds, in the order
\* of the file, and lets go of them when the worker takes its next request.
NoRecords == [w \in Workers |-> <<>>]

Free(w) == req[w].pc \in {"idle", "done"}

TypeOK ==
  /\ secretFile.exists \in BOOLEAN
  /\ IGNORE_SESSION_CHECK \in Seq({"static", "index"})
  /\ \A c \in Clients : Cardinality(cookies[c]) <= 1
  /\ nreq \in 0..MaxRequests
  /\ nrestart \in 0..MaxRestarts

Init ==
  /\ \E c \in Alphabet :
       LET boot == get_secret_key(NoFile, c)
       IN  secretFile = boot.file /\ SECRET_KEY = boot.key
  /\ IGNORE_SESSION_CHECK = ImportedIgnoreList
  /\ cookies = [c \in Clients |-> {}]
  /\ req = [w \in Workers |-> Idle]
  /\ accessLog = NoRecords
  /\ errorLog = NoRecords
  /\ visited = [c \in Clients |-> FALSE]
  /\ failed = FALSE
  /\ nreq = 0
  /\ nrestart = 0

\* A client sends a request with the cookie it holds; a free worker takes it.
SendRequest(c, m, p) ==
  /\ nreq < MaxRequests
  /\ \E w \in Workers :
       /\ Free(w)
       /\ \A v \in Workers : Free(v) => w <= v
       /\ req' = [req EXCEPT ![w] =
                    request_context(c, m, p, cookies[c], SECRET_KEY, visited[c], failed)]
       /\ accessLog' = [accessLog EXCEPT ![w] = <<>>]
       /\ errorLog' = [errorLog EXCEPT ![w] = <<>>]
  /\ nreq' = nreq + 1
  /\ UNCHANGED <<secretFile, SECRET_KEY, IGNORE_SESSION_CHECK, cookies,
                 visited, failed, nrestart>>

\* The state after full_dispatch_request left out for worker w's request r.
Dispatched(w, r, out) ==
  /\ req' = [req EXCEPT ![w] =
               [r EXCEPT !.session = out.session, !.modified = out.modified,
                         !.exc = out.exc, !.res = out.rv, !.trace = out.trace,
                         !.pc = "finalize_request"]]
  /\ accessLog' = [accessLog EXCEPT ![w] = @ \o ToAccessLog(out.log)]
  /\ errorLog' = [errorLog EXCEPT ![w] = @ \o ToErrorLog(out.log)]

\* full_dispatch_request: the before_request functions, the view function
\* unless one of them answered, the error handler if an exception was raised.
FullDispatchRequest(w) ==
  /\ req[w].pc = "full_dispatch_request"
  /\ Dispatched(w, req[w], full_dispatch_request(req[w], IGNORE_SESSION_CHECK))
  /\ UNCHANGED <<secretFile, SECRET_KEY, IGNORE_SESSION_CHECK, cookies,
                 visited, failed, nreq, nrestart>>

\* The state after process_response left out for worker w's request r: the
\* session is saved and the response goes to the client, whose cookie jar
\* takes its cookie.
Finalized(w, r, out) ==
  /\ req' = [req EXCEPT ![w] =
               [r EXCEPT !.res = out.res, !.trace = out.trace, !.pc = "done"]]
  /\ accessLog' = [accessLog EXCEPT ![w] = @ \o ToAccessLog(out.log)]
  /\ errorLog' = [errorLog EXCEPT ![w] = @ \o ToErrorLog(out.log)]
  /\ cookies' = [cookies EXCEPT ![r.client] =
                   save_session(cookies[r.client], SECRET_KEY, r.session, r.modified)]
  /\ visited' = [visited EXCEPT ![r.client] =
                   visited[r.client] \/ (r.method = "GET" /\ r.path = <<>>)]
  /\ failed' = (failed \/ out.res.status \in {401, 500})

\* finalize_request: the after_request functions, then the session cookie
\* and the response.
FinalizeRequest(w) ==
  /\ req[w].pc = "finalize_request"
  /\ Finalized(w, req[w], process_response(req[w]))
  /\ UNCHANGED <<secretFile, SECRET_KEY, IGNORE_SESSION_CHECK, nreq, nrestart>>

\* The secret-key file is removed from the application directory.
DeleteSecretFile ==
  /\ secretFile.exists
  /\ nrestart < MaxRestarts
  /\ secretFile' = NoFile
  /\ UNCHANGED <<SECRET_KEY, IGNORE_SESSION_CHECK, cookies, req, accessLog,
                 errorLog, visited, failed, nreq, nrestart>>

\* The process restarts: the module is imported again, the requests that
\* were being handled are lost, the clients' cookies stay.
Restart ==
  /\ nrestart < MaxRestarts
  /\ \E c \in Alphabet :
       LET boot == get_secret_key(secretFile, c)
       IN  /\ secretFile' = boot.file
           /\ SECRET_KEY' = boot.key
           /\ visited' = [x \in Clients |-> visited[x] /\ boot.key = SECRET_KEY]
  /\ IGNORE_SESSION_CHECK' = ImportedIgnoreList
  /\ req' = [w \in Workers |-> Idle]
  /\ accessLog' = NoRecords
  /\ errorLog' = NoRecords
  /\ failed' = FALSE
  /\ nrestart' = nrestart + 1
  /\ UNCHANGED <<cookies, nreq>>

Next ==
  \/ \E c \in Clients, q \in Requests : SendRequest(c, q[1], q[2])
  \/ \E w \in Workers : FullDispatchRequest(w)
  \/ \E w \in Workers : FinalizeRequest(w)
  \/ DeleteSecretFile
  \/ Restart

Spec == Init /\ [][Next]_vars


\* ------------------------------------------------------------ the claims
Answered(w) == req[w].pc \in {"finalize_request", "done"}
Done(w) == req[w].pc = "done"

\* The login_id of the session a request arrived with.
LoginId(r) == session_get(open_session(SECRET_KEY, r.sent), "login_id")

Views == {"static", "index", "return_json_response", "return_error_response"}
Called(r, name) == \E i \in DOMAIN r.trace : r.trace[i] = name
At(r, name) == CHOOSE i \in DOMAIN r.trace : r.trace[i] = name
LoginRequired(res) == res.status = 401 /\ res.body = "login required"

\* C1: a request whose endpoint is not in IGNORE_SESSION_CHECK and whose
\* session holds no truthy login_id is answered 401 'login required', and no
\* route handler is called for it.
C1_GateRefuses ==
  \A w \in Workers :
    ( /\ Answered(w)
      /\ req[w].endpoint \notin Elements(IGNORE_SESSION_CHECK)
      /\ ~Truthy(LoginId(req[w])) )
    => /\ LoginRequired(req[w].res)
       /\ \A v \in Views : ~Called(req[w], v)
       /\ req[w].exc = NONE

C1_Witness ==
  \E w \in Workers :
    /\ Done(w)
    /\ req[w].endpoint = "return_json_response"
    /\ req[w].sent = {}
    /\ LoginRequired(req[w].res)

\* C2: a request without a session to an exempt endpoint ('static', 'index')
\* is not answered 401: the endpoint's handler is called and what it returns
\* is the response (the page for index, the file for static).
C2_ExemptServed ==
  \A w \in Workers :
    (Answered(w) /\ req[w].endpoint \in {"static", "index"} /\ req[w].sent = {})
    => /\ req[w].res.status # 401
       /\ Called(req[w], req[w].endpoint)
       /\ req[w].endpoint = "index" =>
            req[w].res.status = 200 /\ req[w].res.body = "<index.html name=World>"
       /\ (req[w].endpoint = "static" /\ Tail(req[w].path) \in StaticFiles) =>
            req[w].res.status = 200 /\ req[w].res.body = "<file style.css>"

C2_Witness ==
  \E w \in Workers :
    /\ Done(w)
    /\ req[w].endpoint = "index"
    /\ req[w].sent = {}
    /\ req[w].res.status = 200

\* C3: GET / is answered 200 whatever the session; once a client has its
\* response, the client's cookie holds a truthy login_id under the current
\* secret key, and every request it sends afterwards to a non-exempt endpoint
\* passes the session gate, for as long as the secret key is the same.
C3_IndexLogsIn ==
  /\ \A w \in Workers :
       (Answered(w) /\ req[w].method = "GET" /\ req[w].path = <<>>)
       => req[w].res.status = 200
  /\ \A c \in Clients :
       visited[c] => /\ cookies[c] # {}
                     /\ Truthy(session_get(open_session(SECRET_KEY, cookies[c]), "login_id"))
  /\ \A w \in Workers :
       (Answered(w) /\ req[w].afterIndex /\ req[w].endpoint \notin {"static", "index"})
       => /\ req[w].res.status # 401
          /\ Called(req[w], "check_session")

C3_Witness ==
  \E w \in Workers :
    /\ Done(w)
    /\ req[w].afterIndex
    /\ req[w].endpoint = "return_json_response"
    /\ req[w].res.status = 200

\* C4: when an exception is raised for a request (by its route handler, or
\* the routing exception raised at dispatch), the response is 500 'Internal
\* Server Error', and before the response is returned the error log holds
\* the lines of the traceback in order, line i prefixed with i.
C4_ErrorHandled ==
  \A w \in Workers :
    (Answered(w) /\ req[w].exc # NONE)
    => /\ req[w].res.status = 500
       /\ req[w].res.body = "Internal Server Error"
       /\ LET mine  == errorLog[w]
              lines == TracebackLines(req[w].exc)
          IN  /\ Len(mine) >= Len(lines)
              /\ \A i \in DOMAIN lines :
                   /\ mine[i].level = "ERROR"
                   /\ mine[i].message = Str(i) \o "\t" \o lines[i]

C4_Witness ==
  \E w \in Workers :
    /\ req[w].pc = "finalize_request"
    /\ req[w].endpoint = "static"
    /\ Called(req[w], "static")
    /\ req[w].exc = "NotFound"
    /\ errorLog[w] # <<>>

\* C6: with a truthy login_id in the session the gate lets the request
\* through and the client receives the handler's response as it is: 200 with
\* {"this is": "sample"} from return_json_response, 403 with {} from
\* return_error_response.
C6_HandlerResponse ==
  \A w \in Workers :
    (Done(w) /\ Truthy(LoginId(req[w])))
    => /\ req[w].res.status # 401
       /\ req[w].endpoint = "return_json_response" =>
            /\ req[w].res.status = 200
            /\ req[w].res.body = "{\"this is\": \"sample\"}"
            /\ Called(req[w], "return_json_response")
       /\ req[w].endpoint = "return_error_response" =>
            /\ req[w].res.status = 403
            /\ req[w].res.body = "{}"
            /\ Called(req[w], "return_error_response")

C6_Witness ==
  \E w \in Workers :
    /\ Done(w)
    /\ Truthy(LoginId(req[w]))
    /\ req[w].endpoint = "return_error_response"
    /\ req[w].res.status = 403


\* A step that restarts the process.
Restarted == nrestart' = nrestart + 1

\* What a restart does about the key: with the file gone it leaves a key of
\* 64 characters in the file and in the configuration; with the file there
\* it takes the file's content and leaves the file as it is.
KeyProvisioned ==
  Restarted =>
    /\ ~secretFile.exists =>
         /\ Len(SECRET_KEY') = 64
         /\ secretFile' = [exists |-> TRUE, content |-> SECRET_KEY']
    /\ secretFile.exists =>
         /\ SECRET_KEY' = secretFile.content
         /\ secretFile' = secretFile

ExpectedStatus(r) ==
  IF r.method = "GET" /\ r.path = <<>> THEN 200
  ELSE IF r.method = "GET" /\ r.path # <<>> /\ Head(r.path) = "static"
  THEN (IF Tail(r.path) \in StaticFiles THEN 200 ELSE 500)
  ELSE IF ~Truthy(LoginId(r)) THEN 401
  ELSE IF r.method = "GET" /\ r.path = <<"api", "return_json_response">> THEN 200
  ELSE IF r.method = "GET" /\ r.path = <<"api", "return_error_response">> THEN 403
  ELSE 500

\* A step of worker w on a request that fails: refused with 401 or answered
\* 500 by the error handler.
FailingStep(w) ==
  /\ \/ req[w].pc = "full_dispatch_request" /\ req'[w].pc = "finalize_request"
     \/ req[w].pc = "finalize_request" /\ req'[w].pc = "done"
  /\ req'[w].res.status \in {401, 500}

\* C7: the steps of a failed request (401 or 500) leave the exemption list,
\* the secret key, its file and every client's cookie as they were, and the
\* process goes on serving: each request, sent after failed ones or not, is
\* answered, with the status its own method, path and session call for.
C7_FailureIsLocal ==
  [][ /\ \A w \in Workers :
           FailingStep(w) =>
             /\ IGNORE_SESSION_CHECK' = IGNORE_SESSION_CHECK
             /\ SECRET_KEY' = SECRET_KEY
             /\ secretFile' = secretFile
             /\ cookies' = cookies
      /\ \A w \in Workers :
           req'[w].pc \in {"finalize_request", "done"}
           => req'[w].res.status = ExpectedStatus(req'[w])
    ]_vars

\* A request sent after the process had answered 401 or 500 to another, and
\* answered 200 with the page.
C7_Witness ==
  \E v \in Workers :
    /\ failed
    /\ Done(v) /\ req[v].afterFailure
    /\ req[v].endpoint = "index" /\ req[v].res.status = 200

\* What runs between the before_request and the after_request functions: the
\* route handler, the error handler after it if it raised, the error handler
\* alone for a routing exception, nothing when a before_request function
\* answered.
Middle(r) ==
  IF r.exc # NONE
  THEN (IF r.routing_exception # NONE THEN <<"handle_error">>
        ELSE <<r.endpoint, "handle_error">>)
  ELSE IF LoginRequired(r.res) THEN <<>>
  ELSE <<r.endpoint>>

\* C8, as the claim states it: write_access_log, check_session, the route
\* handler or the error handler, then add_no_cache_header, static_cache and
\* write_access_result_log in this order, the end-of-request line being
\* written once the Expires header of a static response is set.
C8_RegistrationOrder ==
  \A w \in Workers :
    Done(w) =>
      \E mid \in {<<>>, <<req[w].endpoint>>, <<"handle_error">>,
                  <<req[w].endpoint, "handle_error">>} :
        req[w].trace = <<"write_access_log", "check_session">> \o mid
                       \o <<"add_no_cache_header", "static_cache", "write_access_result_log">>

\* C8, amended: write_access_log, check_session, the route handler unless
\* check_session answered 401 (the error handler after it, or in its place
\* for a routing exception), then the after_request functions in the reverse
\* of their registration order: write_access_result_log, static_cache,
\* add_no_cache_header; the end-of-request line is written before the Expires
\* header of a static response is set.
C8_HookOrder ==
  \A w \in Workers :
    Done(w) =>
      /\ req[w].trace = <<"write_access_log", "check_session">> \o Middle(req[w])
                        \o <<"write_access_result_log", "static_cache", "add_no_cache_header">>
      /\ At(req[w], "write_access_result_log") < At(req[w], "static_cache")
      /\ req[w].endpoint = "static" => \E h \in req[w].res.headers : h[1] = "Expires"

C8_Witness ==
  \E w \in Workers :
    /\ Done(w)
    /\ req[w].endpoint = "static"
    /\ req[w].res.status = 200
    /\ \E h \in req[w].res.headers : h[1] = "Expires"
    /\ At(req[w], "write_access_result_log") < At(req[w], "static_cache")

\* The records of the access log written for worker w's request whose
\* message is msg.
Lines(w, msg) == {i \in DOMAIN accessLog[w] : accessLog[w][i].message = msg}

\* C9: every request, refused with 401 and answered 500 included, leaves in
\* the access log exactly one 'request start' line and, after it, exactly one
\* 'request end' line with the same client address, method and path and with
\* the status code of the response.
C9_StartAndEndLogged ==
  \A w \in Workers :
    Done(w) =>
      LET r == req[w]
          who == <<r.access_route[Len(r.access_route)], r.method, PathText(r.path)>>
          starts == Lines(w, Join(who \o <<"request start">>, "\t"))
          ends == Lines(w, Join(who \o <<"request end", Str(r.res.status)>>, "\t"))
      IN  /\ Cardinality(starts) = 1
          /\ Cardinality(ends) = 1
          /\ \A i \in starts, j \in ends : i < j

\* The rest of C9 with the message as the code spells it, 'reqeust end'.
C9_AsSpelled ==
  \A w \in Workers :
    Done(w) =>
      LET r == req[w]
          who == <<r.access_route[Len(r.access_route)], r.method, PathText(r.path)>>
          starts == Lines(w, Join(who \o <<"request start">>, "\t"))
          ends == Lines(w, Join(who \o <<"reqeust end", Str(r.res.status)>>, "\t"))
      IN  /\ Cardinality(starts) = 1
          /\ Cardinality(ends) = 1
          /\ \A i \in starts, j \in ends : i < j

\* C10, as the claim states it: without a truthy login_id a request that
\* matches no route is answered 401 'login required', and so is a request to
\* a path that exists, so that the two cannot be told apart.
C10_PathsIndistinguishable ==
  \A w \in Workers :
    (Answered(w) /\ ~Truthy(LoginId(req[w]))) => LoginRequired(req[w].res)

\* C10, amended: without a truthy login_id a request that matches no route
\* is answered 401 'login required', no not-found exception being raised for
\* it, and so is a request to an existing endpoint that is not exempt; the
\* exempt ones (/ and /static/...) answer otherwise.
C10_UnmatchedRefused ==
  \A w \in Workers :
    (Answered(w) /\ ~Truthy(LoginId(req[w]))) =>
      /\ req[w].endpoint = NONE =>
           /\ LoginRequired(req[w].res)
           /\ req[w].exc = NONE
           /\ ~Called(req[w], "handle_error")
      /\ req[w].endpoint \in {"return_json_response", "return_error_response"} =>
           LoginRequired(req[w].res)
      /\ (req[w].endpoint = "index" /\ req[w].method = "GET") => req[w].res.status = 200

C10_Witness ==
  \E w \in Workers :
    /\ Done(w)
    /\ req[w].path = <<"nowhere">>
    /\ req[w].routing_exception = "NotFound"
    /\ req[w].sent = {}
    /\ LoginRequired(req[w].res)

====
